---- MODULE Spec2Model ----
(***************************************************************************)
(* Model of the booking server (express app): POST /book and               *)
(* GET /availability, with the helpers sendBrevoConfirmationEmail and      *)
(* submitToJotform.  The newest server source (src/unnamed/part_000,       *)
(* lines 1-229) is modelled.  src/server.js is the same server without the *)
(* e-mail stage, which is how the newest one behaves when BREVO_API_KEY is *)
(* not set; the oldest one (part_000, lines 230-382) has neither e-mail    *)
(* nor CRM stage and puts the working window at 9-17 UTC.                  *)
(*                                                                         *)
(* Times are minutes on the UTC time line.  An async handler runs from one *)
(* suspension point (an await on an external call) to the next as one      *)
(* step.                                                                   *)
(***************************************************************************)
EXTENDS Integers, Sequences, FiniteSets, TLC

\* ------------------------------------------------------------------ bounds
NumReq == 2
MaxClock == 1
MaxBusy == 2
MaxMissing == 2
MaxList == 2

Reqs == 1..NumReq

\* ------------------------------------------------------- JavaScript values
\* What a template literal or URLSearchParams makes of a missing property.
Undefined == "undefined"

Has(p, k) == k \in DOMAIN p
Get(p, k) == IF Has(p, k) THEN p[k] ELSE Undefined

\* The ISO strings the callers of the model send, with the instant each denotes.
IsoMinute ==
  [s \in {"2025-11-03T01:00:00.000Z", "2025-11-03T01:20:00.000Z"} |->
     IF s = "2025-11-03T01:00:00.000Z" THEN 2940 ELSE 2960]

IsoStrings == DOMAIN IsoMinute

\* new Date(x): a valid Date for an ISO string, Invalid Date for anything else.
IsValidDate(x) == x \in IsoStrings
TimeValue(x) == IsoMinute[x]

\* The IANA zone names Intl knows, of those the callers of the model send.
KnownTimeZones == {"Asia/Kuala_Lumpur", "Europe/Berlin"}

\* ---------------------------------------------------------------- payloads
\* req.body of POST /book.  Every field is caller-supplied: a field the
\* caller left out is absent from the record (at most MaxMissing of them).
FullPayload(s, e, tz) ==
  [name |-> "Ana", email |-> "ana@example.com", company |-> "Acme",
   website |-> "acme.example", timezone |-> tz,
   focusAreas |-> <<"SEO", "Ads">>, targetCountries |-> <<"MY", "SG">>,
   timeline |-> "Q1", primaryChallenge |-> "traffic",
   startISO |-> s, endISO |-> e]

Without(p, missing) == [k \in (DOMAIN p) \ missing |-> p[k]]

Droppable ==
  {"name", "email", "startISO", "endISO", "timezone", "focusAreas",
   "targetCountries"}

SentTimeZones == {"Europe/Berlin", "Mars/Olympus"}

Payloads ==
  {Without(FullPayload(s, e, tz), m) :
     s \in IsoStrings, e \in IsoStrings, tz \in SentTimeZones,
     m \in {d \in SUBSET Droppable : Cardinality(d) <= MaxMissing}}

\* The sequences of at most n elements of W.
ListsUpTo(W, n) == UNION {[1..k -> W] : k \in 0..n}

\* Bodies that differ in the two lists of the form: any focus areas and target
\* countries, in any order, and one of two optional answers left out.
CrmPayloads ==
  {Without([FullPayload("2025-11-03T01:00:00.000Z", "2025-11-03T01:20:00.000Z",
                        "Europe/Berlin")
              EXCEPT !.focusAreas = fa, !.targetCountries = tc], m) :
     fa \in ListsUpTo({"SEO", "Ads"}, MaxList),
     tc \in ListsUpTo({"MY", "SG"}, MaxList),
     m \in {{}, {"company"}, {"primaryChallenge"}}}

\* Complete bodies: every field of the form present, the start before the
\* end and the zone one Intl knows.
CompletePayloads ==
  {p \in Payloads : /\ Droppable \subseteq DOMAIN p
                    /\ IsValidDate(p.startISO) /\ IsValidDate(p.endISO)
                    /\ TimeValue(p.startISO) < TimeValue(p.endISO)
                    /\ p.timezone \in KnownTimeZones}

\* What the remote collaborators can answer.
MeetLinks == {"https://meet.example/abc", "https://meet.example/xyz"}
InsertErrors == {"invalid_grant", "The specified time range is empty."}

\* process.env: which of the keys the handlers test are set.
Envs ==
  [BREVO_API_KEY : BOOLEAN, JOTFORM_API_KEY : BOOLEAN, JOTFORM_FORM_ID : BOOLEAN]

SENDER_EMAIL == "noreply@seo-ku.example"
RECIPIENT_EMAIL == "owner@seo-ku.example"

\* ------------------------------------------------------------- POST /book
\* The event resource built from the payload; requestId is `booking-${Date.now()}`.
Event(p, clock) ==
  [summary |-> "Consultation: " \o Get(p, "company"),
   description |-> "Booked by: " \o Get(p, "name") \o " (" \o Get(p, "email")
                   \o ")\nPrimary Challenge: " \o Get(p, "primaryChallenge"),
   start |-> [dateTime |-> Get(p, "startISO"), timeZone |-> "Asia/Kuala_Lumpur"],
   end |-> [dateTime |-> Get(p, "endISO"), timeZone |-> "Asia/Kuala_Lumpur"],
   attendees |-> <<Get(p, "email")>>,
   requestId |-> <<"booking-", clock>>]

\* res.status(200).json({ok: true, message, meetLink}).
OkResponse(link) ==
  [status |-> 200, ok |-> TRUE, message |-> "Consultation booked successfully!",
   meetLink |-> link]

\* A catch that answers with a fixed text instead of error.message.
ErrorResponseGeneric(msg) == [status |-> 500, ok |-> FALSE, error |-> "Booking failed"]

\* The handler's catch: res.status(500).json({ok: false, error: error.message}).
ErrorResponse(msg) == [status |-> 500, ok |-> FALSE, error |-> msg]

\* -------------------------------------------- sendBrevoConfirmationEmail
\* formData.timezone || 'Asia/Kuala_Lumpur'.
ClientTimeZone(p) ==
  IF Has(p, "timezone") /\ p.timezone # "" THEN p.timezone ELSE "Asia/Kuala_Lumpur"

\* formatInTimeZone(new Date(formData.startISO), clientTimeZone, ...) throws a
\* RangeError for an Invalid Date and for a zone name Intl does not know.
FormatThrows(p) ==
  \/ ~IsValidDate(Get(p, "startISO"))
  \/ ClientTimeZone(p) \notin KnownTimeZones

FormattedDateTime(p) == <<TimeValue(p.startISO), ClientTimeZone(p)>>

MsgToClient(p, link) ==
  [sender |-> SENDER_EMAIL, to |-> Get(p, "email"),
   subject |-> "Your Consultation is Confirmed: " \o Get(p, "company"),
   when |-> FormattedDateTime(p), meetLink |-> link]

MsgToAdmin(p) ==
  [sender |-> SENDER_EMAIL, to |-> RECIPIENT_EMAIL,
   subject |-> "New Booking: " \o Get(p, "company"),
   when |-> FormattedDateTime(p)]

\* The part of sendBrevoConfirmationEmail that runs before its first await:
\* "skipped" (no API key, returns), "rejected" (the formatting threw: the
\* promise the async function returned is rejected) or "client" (the first
\* sendTransacEmail is under way).
BrevoStart(e, p) ==
  IF ~e.BREVO_API_KEY THEN "skipped"
  ELSE IF FormatThrows(p) THEN "rejected"
  ELSE "client"

\* --------------------------------------------------------- submitToJotform
RECURSIVE Join(_, _)
Join(seq, sep) ==
  IF seq = <<>> THEN ""
  ELSE IF Len(seq) = 1 THEN seq[1]
  ELSE seq[1] \o sep \o Join(Tail(seq), sep)

\* A mapping numbered without the gap at 14.
SubmissionDataShifted(p) ==
  << <<"submission[6]", Get(p, "name")>>,
     <<"submission[7]", Get(p, "email")>>,
     <<"submission[8]", Get(p, "company")>>,
     <<"submission[9]", Get(p, "website")>>,
     <<"submission[10]", Get(p, "timezone")>>,
     <<"submission[11]", Join(p.focusAreas, "\n")>>,
     <<"submission[12]", Join(p.targetCountries, ", ")>>,
     <<"submission[13]", Get(p, "timeline")>>,
     <<"submission[14]", Get(p, "primaryChallenge")>>,
     <<"submission[15]", "From: " \o Get(p, "startISO") \o "\nTo: "
                          \o Get(p, "endISO")>> >>

\* submissionData, in the order of its keys, as new URLSearchParams(...) lists it.
SubmissionData(p) ==
  << <<"submission[6]", Get(p, "name")>>,
     <<"submission[7]", Get(p, "email")>>,
     <<"submission[8]", Get(p, "company")>>,
     <<"submission[9]", Get(p, "website")>>,
     <<"submission[10]", Get(p, "timezone")>>,
     <<"submission[11]", Join(p.focusAreas, "\n")>>,
     <<"submission[12]", Join(p.targetCountries, ", ")>>,
     <<"submission[13]", Get(p, "timeline")>>,
     <<"submission[15]", Get(p, "primaryChallenge")>>,
     <<"submission[16]", "From: " \o Get(p, "startISO") \o "\nTo: "
                          \o Get(p, "endISO")>> >>

\* formData.focusAreas.join / formData.targetCountries.join on a missing list
\* is a TypeError, thrown while submissionData is built, outside the try.
MappingThrows(p) == ~Has(p, "focusAreas") \/ ~Has(p, "targetCountries")

JoinTypeError == "Cannot read properties of undefined (reading 'join')"

JotformConfigured(e) == e.JOTFORM_API_KEY /\ e.JOTFORM_FORM_ID

\* The part of submitToJotform that runs before its first await: "skipped"
\* (credentials missing, returns), "threw" (building submissionData threw) or
\* "posted" (axios.post is under way).
JotformStart(e, p) ==
  IF ~JotformConfigured(e) THEN "skipped"
  ELSE IF MappingThrows(p) THEN "threw"
  ELSE "posted"

\* ------------------------------------------------------------------- state
VARIABLES
  env,          \* process.env, fixed for the life of the process
  alive,        \* the node process is running
  now,          \* the last value Date.now() returned
  payload,      \* payload[r]: the body of book request r
  pc,           \* pc[r]: where the handler of request r is
  createdEvent, \* createdEvent[r]: what calendar.events.insert resolved to
  insertError,  \* insertError[r]: the message calendar.events.insert rejected with
  mailPc,       \* mailPc[r]: where sendBrevoConfirmationEmail of r is
  unhandled,    \* unhandled[r]: r left a rejected promise nobody handles
  insertCalls,  \* insertCalls[r]: the events r passed to calendar.events.insert
  mailCalls,    \* mailCalls[r]: the messages r passed to sendTransacEmail
  crmCalls,     \* crmCalls[r]: the form bodies r passed to axios.post
  responses,    \* responses[r]: what r wrote with res.json
  errors        \* errors[r]: what r wrote with console.error

bookVars ==
  <<env, alive, now, payload, pc, createdEvent, insertError, mailPc, unhandled,
    insertCalls, mailCalls, crmCalls, responses, errors>>

VARIABLES
  serverZone,    \* the zone the server process runs in
  avPc,          \* where the handler of the availability request is
  query,         \* req.query of the availability request
  freebusyCalls, \* the request bodies passed to calendar.freebusy.query
  busyAnswer,    \* the busy list freebusy.query resolved to
  queryError,    \* what freebusy.query rejected with, if it did
  avResponses    \* what the handler wrote with res.json

availVars ==
  <<serverZone, avPc, query, freebusyCalls, busyAnswer, queryError, avResponses>>

NoEvent == [htmlLink |-> Undefined, hangoutLink |-> Undefined]

\* pcs[r] is "new" (request r is in flight to the server, not handled yet) or
\* "absent" (request r is never sent).
InitBook(ps, pcs) ==
  /\ env \in Envs
  /\ alive = TRUE
  /\ now = 0
  /\ payload = ps
  /\ pc = pcs
  /\ createdEvent = [r \in Reqs |-> NoEvent]
  /\ insertError = [r \in Reqs |-> Undefined]
  /\ mailPc = [r \in Reqs |-> "idle"]
  /\ unhandled = [r \in Reqs |-> FALSE]
  /\ insertCalls = [r \in Reqs |-> <<>>]
  /\ mailCalls = [r \in Reqs |-> <<>>]
  /\ crmCalls = [r \in Reqs |-> <<>>]
  /\ responses = [r \in Reqs |-> <<>>]
  /\ errors = [r \in Reqs |-> {}]

\* A handler that starts the confirmation e-mail before it awaits the insert.
ReceiveNotifyingFirst(r) ==
  /\ alive
  /\ pc[r] = "new"
  /\ \E clock \in {now, now + 1} :
       /\ clock <= MaxClock
       /\ now' = clock
       /\ insertCalls' =
            [insertCalls EXCEPT ![r] = Append(@, Event(payload[r], clock))]
  /\ mailCalls' =
       [mailCalls EXCEPT
          ![r] = IF BrevoStart(env, payload[r]) = "client"
                   THEN Append(@, MsgToClient(payload[r], Undefined))
                 ELSE @]
  /\ pc' = [pc EXCEPT ![r] = "insert"]
  /\ UNCHANGED <<env, alive, payload, createdEvent, insertError, mailPc,
                 unhandled, crmCalls, responses, errors>>
  /\ UNCHANGED availVars

\* A handler that turns away a body it has already passed to the calendar.
ReceiveDeduplicating(r) ==
  /\ alive
  /\ pc[r] = "new"
  /\ IF \E q \in Reqs \ {r} : insertCalls[q] # <<>> /\ payload[q] = payload[r]
       THEN /\ responses' =
                 [responses EXCEPT ![r] = Append(@, ErrorResponse("duplicate"))]
            /\ pc' = [pc EXCEPT ![r] = "done"]
            /\ UNCHANGED <<now, insertCalls>>
       ELSE /\ \E clock \in {now, now + 1} :
                 /\ clock <= MaxClock
                 /\ now' = clock
                 /\ insertCalls' =
                      [insertCalls EXCEPT
                         ![r] = Append(@, Event(payload[r], clock))]
            /\ pc' = [pc EXCEPT ![r] = "insert"]
            /\ UNCHANGED responses
  /\ UNCHANGED <<env, alive, payload, createdEvent, insertError, mailPc,
                 unhandled, mailCalls, crmCalls, errors>>
  /\ UNCHANGED availVars

\* app.post('/book') up to `await calendar.events.insert(...)`: the event is
\* built from the payload as it came and handed to the calendar.
Receive(r) ==
  /\ alive
  /\ pc[r] = "new"
  /\ \E clock \in {now, now + 1} :
       /\ clock <= MaxClock
       /\ now' = clock
       /\ insertCalls' =
            [insertCalls EXCEPT ![r] = Append(@, Event(payload[r], clock))]
  /\ pc' = [pc EXCEPT ![r] = "insert"]
  /\ UNCHANGED <<env, alive, payload, createdEvent, insertError, mailPc,
                 unhandled, mailCalls, crmCalls, responses, errors>>
  /\ UNCHANGED availVars

\* calendar.events.insert rejects: the handler's catch answers.
InsertFails(r) ==
  /\ alive
  /\ pc[r] = "insert"
  /\ \E msg \in InsertErrors :
       /\ insertError' = [insertError EXCEPT ![r] = msg]
       /\ responses' = [responses EXCEPT ![r] = Append(@, ErrorResponse(msg))]
  /\ errors' = [errors EXCEPT ![r] = @ \cup {"Error creating calendar event"}]
  /\ pc' = [pc EXCEPT ![r] = "done"]
  /\ UNCHANGED <<env, now, alive, payload, createdEvent, mailPc, unhandled,
                 insertCalls, mailCalls, crmCalls>>
  /\ UNCHANGED availVars

\* A handler that awaits the confirmation emails before it goes on.
InsertReturnsAwaitingMail(r) ==
  /\ alive
  /\ pc[r] = "insert"
  /\ \E link \in MeetLinks, crash \in BOOLEAN :
       LET p == payload[r]
           mail == BrevoStart(env, p)
           jot == JotformStart(env, p)
       IN
         /\ createdEvent' =
              [createdEvent EXCEPT
                 ![r] = [htmlLink |-> "https://calendar.example/event",
                         hangoutLink |-> link]]
         /\ mailPc' = [mailPc EXCEPT ![r] = mail]
         /\ mailCalls' =
              [mailCalls EXCEPT
                 ![r] = IF mail = "client" THEN Append(@, MsgToClient(p, link))
                        ELSE @]
         /\ unhandled' = [unhandled EXCEPT ![r] = (mail = "rejected")]
         /\ alive' = IF mail = "rejected" THEN ~crash ELSE alive
         /\ crmCalls' =
              [crmCalls EXCEPT
                 ![r] = IF mail # "client" /\ jot = "posted"
                          THEN Append(@, SubmissionData(p))
                        ELSE @]
         /\ responses' =
              [responses EXCEPT
                 ![r] = IF mail = "client" THEN @
                        ELSE IF jot = "skipped" THEN Append(@, OkResponse(link))
                        ELSE IF jot = "threw"
                          THEN Append(@, ErrorResponse(JoinTypeError))
                        ELSE @]
         /\ errors' =
              [errors EXCEPT
                 ![r] = IF mail # "client" /\ jot = "threw"
                          THEN @ \cup {"Error creating calendar event"}
                        ELSE @]
         /\ pc' = [pc EXCEPT ![r] = IF mail = "client" THEN "mail"
                                     ELSE IF jot = "posted" THEN "crm"
                                     ELSE "done"]
  /\ UNCHANGED <<env, now, payload, insertError, insertCalls>>
  /\ UNCHANGED availVars

\* calendar.events.insert resolves.  The handler calls
\* sendBrevoConfirmationEmail without awaiting it, then awaits submitToJotform;
\* the step runs to the handler's next suspension: the await of axios.post, or
\* the response when submitToJotform returned or threw before awaiting.  A
\* rejected promise of sendBrevoConfirmationEmail has no handler: once the
\* microtasks of the step are done the runtime either ends the process
\* (unhandled rejections throw) or only warns.
InsertReturns(r) ==
  /\ alive
  /\ pc[r] = "insert"
  /\ \E link \in MeetLinks, crash \in BOOLEAN :
       LET p == payload[r]
           mail == BrevoStart(env, p)
           jot == JotformStart(env, p)
       IN
         /\ createdEvent' =
              [createdEvent EXCEPT
                 ![r] = [htmlLink |-> "https://calendar.example/event",
                         hangoutLink |-> link]]
         /\ mailPc' = [mailPc EXCEPT ![r] = mail]
         /\ mailCalls' =
              [mailCalls EXCEPT
                 ![r] = IF mail = "client" THEN Append(@, MsgToClient(p, link))
                        ELSE @]
         /\ unhandled' = [unhandled EXCEPT ![r] = (mail = "rejected")]
         /\ alive' = IF mail = "rejected" THEN ~crash ELSE alive
         /\ crmCalls' =
              [crmCalls EXCEPT
                 ![r] = IF jot = "posted" THEN Append(@, SubmissionData(p))
                        ELSE @]
         /\ responses' =
              [responses EXCEPT
                 ![r] = IF jot = "skipped" THEN Append(@, OkResponse(link))
                        ELSE IF jot = "threw"
                          THEN Append(@, ErrorResponse(JoinTypeError))
                        ELSE @]
         /\ errors' =
              [errors EXCEPT
                 ![r] = IF jot = "threw"
                          THEN @ \cup {"Error creating calendar event"}
                        ELSE @]
         /\ pc' = [pc EXCEPT ![r] = IF jot = "posted" THEN "crm" ELSE "done"]
  /\ UNCHANGED <<env, now, payload, insertError, insertCalls>>
  /\ UNCHANGED availVars

\* axios.post resolves: submitToJotform logs and returns, the handler answers.
JotformSucceeds(r) ==
  /\ alive
  /\ pc[r] = "crm"
  /\ responses' =
       [responses EXCEPT ![r] = Append(@, OkResponse(createdEvent[r].hangoutLink))]
  /\ pc' = [pc EXCEPT ![r] = "done"]
  /\ UNCHANGED <<env, alive, now, payload, createdEvent, insertError, mailPc, unhandled,
                 insertCalls, mailCalls, crmCalls, errors>>
  /\ UNCHANGED availVars

\* axios.post rejects: submitToJotform's catch logs, the handler answers.
JotformFails(r) ==
  /\ alive
  /\ pc[r] = "crm"
  /\ errors' = [errors EXCEPT ![r] = @ \cup {"Error submitting to Jotform"}]
  /\ responses' =
       [responses EXCEPT ![r] = Append(@, OkResponse(createdEvent[r].hangoutLink))]
  /\ pc' = [pc EXCEPT ![r] = "done"]
  /\ UNCHANGED <<env, alive, now, payload, createdEvent, insertError, mailPc, unhandled,
                 insertCalls, mailCalls, crmCalls>>
  /\ UNCHANGED availVars

\* sendTransacEmail(msgToClient) resolves: the admin message is sent next.
ClientMailSucceeds(r) ==
  /\ alive
  /\ mailPc[r] = "client"
  /\ mailCalls' = [mailCalls EXCEPT ![r] = Append(@, MsgToAdmin(payload[r]))]
  /\ mailPc' = [mailPc EXCEPT ![r] = "admin"]
  /\ UNCHANGED <<env, alive, now, payload, pc, createdEvent, insertError, unhandled,
                 insertCalls, crmCalls, responses, errors>>
  /\ UNCHANGED availVars

\* A catch that sends the client message once more before giving up.
ClientMailFailsRetrying(r) ==
  /\ alive
  /\ mailPc[r] = "client"
  /\ errors' = [errors EXCEPT ![r] = @ \cup {"Error sending email via Brevo"}]
  /\ IF Len(mailCalls[r]) < 2
       THEN /\ mailCalls' =
                 [mailCalls EXCEPT
                    ![r] = Append(@, MsgToClient(payload[r],
                                                 createdEvent[r].hangoutLink))]
            /\ UNCHANGED mailPc
       ELSE /\ mailPc' = [mailPc EXCEPT ![r] = "failed"]
            /\ UNCHANGED mailCalls
  /\ UNCHANGED <<env, alive, now, payload, pc, createdEvent, insertError, unhandled,
                 insertCalls, crmCalls, responses>>
  /\ UNCHANGED availVars

\* sendTransacEmail(msgToClient) rejects: the catch around both sends logs.
ClientMailFails(r) ==
  /\ alive
  /\ mailPc[r] = "client"
  /\ errors' = [errors EXCEPT ![r] = @ \cup {"Error sending email via Brevo"}]
  /\ mailPc' = [mailPc EXCEPT ![r] = "failed"]
  /\ UNCHANGED <<env, alive, now, payload, pc, createdEvent, insertError, unhandled,
                 insertCalls, mailCalls, crmCalls, responses>>
  /\ UNCHANGED availVars

\* sendTransacEmail(msgToAdmin) resolves.
AdminMailSucceeds(r) ==
  /\ alive
  /\ mailPc[r] = "admin"
  /\ mailPc' = [mailPc EXCEPT ![r] = "sent"]
  /\ UNCHANGED <<env, alive, now, payload, pc, createdEvent, insertError, unhandled,
                 insertCalls, mailCalls, crmCalls, responses, errors>>
  /\ UNCHANGED availVars

\* sendTransacEmail(msgToAdmin) rejects.
AdminMailFails(r) ==
  /\ alive
  /\ mailPc[r] = "admin"
  /\ errors' = [errors EXCEPT ![r] = @ \cup {"Error sending email via Brevo"}]
  /\ mailPc' = [mailPc EXCEPT ![r] = "failed"]
  /\ UNCHANGED <<env, alive, now, payload, pc, createdEvent, insertError, unhandled,
                 insertCalls, mailCalls, crmCalls, responses>>
  /\ UNCHANGED availVars

NextBook ==
  \E r \in Reqs :
    \/ Receive(r)
    \/ InsertFails(r)
    \/ InsertReturns(r)
    \/ JotformSucceeds(r)
    \/ JotformFails(r)
    \/ ClientMailSucceeds(r)
    \/ ClientMailFails(r)
    \/ AdminMailSucceeds(r)
    \/ AdminMailFails(r)

\* -------------------------------------------------------- GET /availability
meetingDurationMinutes == 20
workDayStartHourUTC == 1
workDayEndHourUTC == 9
stepMinutes == 30

\* The dates the callers of the model ask for, with the instant of each one's
\* T00:00:00Z.  Minute 0 is 2025-11-01T00:00:00Z.
DateMinute ==
  [d \in {"2025-11-02", "2025-11-03"} |-> IF d = "2025-11-02" THEN 1440 ELSE 2880]

QueryDates == DOMAIN DateMinute

\* req.query: start and end as date strings, or left out.
Queries == [start : QueryDates \cup {Undefined}, end : QueryDates \cup {Undefined}]

\* The zone the server process runs in (TZ): its UTC offset before and after
\* the one transition `at` the model's days hold (none when the two are equal).
\* America/New_York leaves daylight saving time on 2025-11-02 at 06:00 UTC.
ServerZones ==
  {[name |-> "UTC", before |-> 0, after |-> 0, at |-> 0],
   [name |-> "Asia/Kuala_Lumpur", before |-> 480, after |-> 480, at |-> 0],
   [name |-> "America/New_York", before |-> -240, after |-> -300, at |-> 1800]}

\* LocalTime(t) and UTC(tlocal) of ECMAScript: a local time that occurs twice
\* or not at all is read with the offset before the transition.
LocalTime(z, t) == t + (IF t < z.at THEN z.before ELSE z.after)

UTCOf(z, tlocal) ==
  IF tlocal - z.before < z.at THEN tlocal - z.before
  ELSE IF tlocal - z.after >= z.at THEN tlocal - z.after
  ELSE tlocal - z.before

\* date.setUTCHours(h, 0, 0, 0).
SetUTCHours(t, h) == (t \div 1440) * 1440 + h * 60

\* date.getMinutes() and date.setMinutes(m): both on the server's local time.
GetMinutes(z, t) == LocalTime(z, t) % 60

SetMinutes(z, t, m) ==
  UTCOf(z, (LocalTime(z, t) \div 60) * 60 + m)

\* An overlap test that forgets the busy interval's end.
OverlapsAfterStart(slot, slotEnd, busy) == slotEnd > busy.start

\* An overlap test that also counts intervals that only touch.
OverlapsClosed(slot, slotEnd, busy) == slot <= busy.end /\ slotEnd >= busy.start

\* slot < busyEnd && slotEnd > busyStart.
Overlaps(slot, slotEnd, busy) == slot < busy.end /\ slotEnd > busy.start

\* busySlots.some(...).
IsBusy(slot, slotEnd, busySlots) ==
  \E busy \in busySlots : Overlaps(slot, slotEnd, busy)

\* The while loop of the handler, from `slot` on: the free slots pushed.
RECURSIVE SlotLoop(_, _, _, _)
SlotLoop(z, slot, endOfDay, busySlots) ==
  IF ~(slot < endOfDay) THEN <<>>
  ELSE
    LET slotEnd == slot + meetingDurationMinutes
        pushed == IF ~IsBusy(slot, slotEnd, busySlots)
                    THEN <<[startISO |-> slot, endISO |-> slotEnd]>>
                  ELSE <<>>
        next == SetMinutes(z, slot, GetMinutes(z, slot) + stepMinutes)
    IN pushed \o SlotLoop(z, next, endOfDay, busySlots)

\* availableSlots for the day that starts at startTime.
AvailableSlots(z, startTime, busySlots) ==
  SlotLoop(z, SetUTCHours(startTime, workDayStartHourUTC),
           SetUTCHours(startTime, workDayEndHourUTC), busySlots)

\* The candidates the loop tries, free or not.
Candidates(z, startTime) == AvailableSlots(z, startTime, {})

\* What freebusy.query can answer for the day that starts at startTime: at
\* most MaxBusy busy intervals, in any order, overlapping or adjacent or not,
\* with ends at and around the edges of the first candidates.
BusyOffsets == {59, 60, 61, 70, 79, 80, 81, 90}

BusyIntervals(startTime) ==
  {[start |-> startTime + a, end |-> startTime + b] :
     <<a, b>> \in {ab \in BusyOffsets \X BusyOffsets : ab[1] < ab[2]}}

RECURSIVE SetsUpTo(_, _)
SetsUpTo(S, n) ==
  IF n = 0 THEN {{}}
  ELSE LET smaller == SetsUpTo(S, n - 1)
       IN smaller \cup {bs \cup {b} : bs \in smaller, b \in S}

\* A single busy interval that is exactly one 20-minute meeting on the
\* half-hour grid of the working window.
GridIntervals(startTime) ==
  {[start |-> startTime + workDayStartHourUTC * 60 + k * stepMinutes,
    end |-> startTime + workDayStartHourUTC * 60 + k * stepMinutes
            + meetingDurationMinutes] :
     k \in 0..(((workDayEndHourUTC - workDayStartHourUTC) * 60) \div stepMinutes - 1)}

BusySets(startTime) ==
  SetsUpTo(BusyIntervals(startTime), MaxBusy)
    \cup {{b} : b \in GridIntervals(startTime)}

InitAvail(pc0) ==
  /\ serverZone \in ServerZones
  /\ avPc = pc0
  /\ query \in Queries
  /\ freebusyCalls = <<>>
  /\ busyAnswer = {}
  /\ queryError = Undefined
  /\ avResponses = <<>>

\* What a rejected freebusy.query rejects with.
FreeBusyErrors == {"quotaExceeded", "invalid_grant"}

\* new Date(`${start}T00:00:00Z`) is an Invalid Date unless start is a date.
ValidQueryDate(d) == d \in QueryDates

\* res.status(500).json({error: 'Failed to fetch availability'}).
AvailabilityError == [status |-> 500, error |-> "Failed to fetch availability"]

\* app.get('/availability') up to `await calendar.freebusy.query(...)`;
\* toISOString() of an Invalid Date throws, and the handler's catch answers.
AvailabilityReceive ==
  /\ avPc = "new"
  /\ IF ValidQueryDate(query.start) /\ ValidQueryDate(query.end)
       THEN /\ freebusyCalls' =
                 Append(freebusyCalls,
                        [timeMin |-> DateMinute[query.start],
                         timeMax |-> DateMinute[query.end] + 1439])
            /\ avPc' = "query"
            /\ UNCHANGED avResponses
       ELSE /\ avResponses' = Append(avResponses, AvailabilityError)
            /\ avPc' = "done"
            /\ UNCHANGED freebusyCalls
  /\ UNCHANGED <<serverZone, query, busyAnswer, queryError>>
  /\ UNCHANGED bookVars

\* A handler that takes a failed query for an empty busy list.
FreeBusyFailsAsFree ==
  /\ avPc = "query"
  /\ \E err \in FreeBusyErrors : queryError' = err
  /\ avResponses' =
       Append(avResponses,
              [status |-> 200,
               days |-> <<[date |-> query.start,
                           slots |-> AvailableSlots(serverZone,
                                       DateMinute[query.start], {})]>>])
  /\ avPc' = "done"
  /\ UNCHANGED <<serverZone, query, freebusyCalls, busyAnswer>>
  /\ UNCHANGED bookVars

\* freebusy.query rejects: the catch logs the error and answers.
FreeBusyFails ==
  /\ avPc = "query"
  /\ \E err \in FreeBusyErrors : queryError' = err
  /\ avResponses' = Append(avResponses, AvailabilityError)
  /\ avPc' = "done"
  /\ UNCHANGED <<serverZone, query, freebusyCalls, busyAnswer>>
  /\ UNCHANGED bookVars

\* freebusy.query resolves: the slot loop runs and the handler answers with
\* one entry, for the start date.
FreeBusyReturns ==
  /\ avPc = "query"
  /\ \E bs \in BusySets(DateMinute[query.start]) :
       /\ busyAnswer' = bs
       /\ avResponses' =
            Append(avResponses,
                   [status |-> 200,
                    days |-> <<[date |-> query.start,
                                slots |-> AvailableSlots(serverZone,
                                            DateMinute[query.start], bs)]>>])
  /\ avPc' = "done"
  /\ UNCHANGED <<serverZone, query, freebusyCalls, queryError>>
  /\ UNCHANGED bookVars

NextAvail ==
  \/ AvailabilityReceive
  \/ FreeBusyFails
  \/ FreeBusyReturns

\* ---------------------------------------------------------- specifications
vars == <<bookVars, availVars>>

OnlyFirst == [r \in Reqs |-> IF r = 1 THEN "new" ELSE "absent"]
AllNew == [r \in Reqs |-> "new"]
NoneSent == [r \in Reqs |-> "absent"]

\* One book request in flight, with any body; no availability request.
Init ==
  /\ \E p \in Payloads : InitBook([r \in Reqs |-> p], OnlyFirst)
  /\ InitAvail("absent")
  /\ serverZone.name = "UTC"
  /\ query = [start |-> Undefined, end |-> Undefined]

Next == NextBook

Spec == Init /\ [][Next]_vars

\* One availability request in flight, no book request.
AvailInit ==
  /\ InitBook([r \in Reqs |-> FullPayload("2025-11-03T01:00:00.000Z",
                                          "2025-11-03T01:20:00.000Z",
                                          "Europe/Berlin")], NoneSent)
  /\ env = [BREVO_API_KEY |-> TRUE, JOTFORM_API_KEY |-> TRUE,
            JOTFORM_FORM_ID |-> TRUE]
  /\ InitAvail("new")

AvailNext == NextAvail

\* One book request in flight whose body varies in the form's lists.
CrmInit ==
  /\ \E p \in CrmPayloads : InitBook([r \in Reqs |-> p], OnlyFirst)
  /\ InitAvail("absent")
  /\ serverZone.name = "UTC"
  /\ query = [start |-> Undefined, end |-> Undefined]

CrmSpec == CrmInit /\ [][Next]_vars

\* Every book request in flight at once, all with the same complete body; the
\* handlers interleave at their awaits.
PairInit ==
  /\ \E p \in CompletePayloads : InitBook([r \in Reqs |-> p], AllNew)
  /\ InitAvail("absent")
  /\ serverZone.name = "UTC"
  /\ query = [start |-> Undefined, end |-> Undefined]

PairSpec == PairInit /\ [][Next]_vars

\* One book request in flight, where every call the handler awaits is
\* answered in the end; nothing is assumed of the email sends, which the
\* handler does not await.
FairSpec ==
  /\ Init
  /\ [][Next]_vars
  /\ \A r \in Reqs :
       /\ WF_vars(Receive(r))
       /\ WF_vars(InsertFails(r) \/ InsertReturns(r))
       /\ WF_vars(JotformSucceeds(r) \/ JotformFails(r))

AvailSpec == AvailInit /\ [][AvailNext]_vars

\* ------------------------------------------------------------------ claims
InsertSucceeded(r) == createdEvent[r] # NoEvent
InsertFailed(r) == insertError[r] # Undefined

AllResponsesOk(r) == \A i \in DOMAIN responses[r] : responses[r][i].ok
NoResponseOk(r) == \A i \in DOMAIN responses[r] : ~responses[r][i].ok

\* C1: a book request whose calendar insert failed is answered ok:false with
\* the reason the insert failed with, and no e-mail is sent and nothing is
\* submitted to the CRM for it; an ok:true answer is only ever given to a
\* request whose insert succeeded.
C1_InsertFailureIsFatal ==
  \A r \in Reqs :
    /\ InsertFailed(r) =>
         /\ Len(responses[r]) = 1
         /\ responses[r][1].ok = FALSE
         /\ responses[r][1].error = insertError[r]
         /\ mailCalls[r] = <<>>
         /\ crmCalls[r] = <<>>
    /\ ~AllResponsesOk(r) \/ responses[r] = <<>> \/ InsertSucceeded(r)

C1_Witness == \E r \in Reqs : InsertFailed(r) /\ pc[r] = "done"

\* C2 (as claimed): once the calendar insert of a request succeeded, every
\* response the request gets is ok:true, whatever the CRM stage does.
C2_CrmFailureNeverSurfaces ==
  \A r \in Reqs : InsertSucceeded(r) => AllResponsesOk(r)

\* C3 (as claimed): when the insert succeeded and the notification stage
\* failed (formatting, requester send or operator send), the failure was
\* logged, left no unhandled rejection behind, and every response of the
\* request is ok:true with the conference link of the request's insert.
C3_NotificationFailureSwallowed ==
  \A r \in Reqs :
    (InsertSucceeded(r) /\ mailPc[r] \in {"rejected", "failed"}) =>
      /\ ~unhandled[r]
      /\ "Error sending email via Brevo" \in errors[r]
      /\ \A i \in DOMAIN responses[r] :
           /\ responses[r][i].ok
           /\ responses[r][i].meetLink = createdEvent[r].hangoutLink

NoCollaboratorInvoked(r) ==
  insertCalls[r] = <<>> /\ mailCalls[r] = <<>> /\ crmCalls[r] = <<>>

StartNotBeforeEnd(p) ==
  /\ IsValidDate(Get(p, "startISO"))
  /\ IsValidDate(Get(p, "endISO"))
  /\ TimeValue(p.startISO) >= TimeValue(p.endISO)

\* C4 (as claimed): a request with startISO >= endISO never has a collaborator
\* invoked for it and is never answered ok:true.
C4_EmptyRangeRejected ==
  \A r \in Reqs :
    StartNotBeforeEnd(payload[r]) => NoCollaboratorInvoked(r) /\ NoResponseOk(r)

IdentityFields == {"name", "email", "startISO", "endISO"}

\* C5 (as claimed): a request that lacks name, email, startISO or endISO never
\* has a collaborator invoked for it and is never answered ok:true.
C5_MissingIdentityRejected ==
  \A r \in Reqs :
    (\E k \in IdentityFields : ~Has(payload[r], k)) =>
      NoCollaboratorInvoked(r) /\ NoResponseOk(r)

\* The availability handler answered with slots.
Answered == avPc = "done" /\ avResponses[1].status = 200

Slots == avResponses[1].days[1].slots

SlotSet == {Slots[i] : i \in DOMAIN Slots}

DayCandidates ==
  LET c == Candidates(serverZone, DateMinute[query.start])
  IN {c[i] : i \in DOMAIN c}

\* C6: of the candidates the loop tries, the ones returned as available are
\* exactly those that no busy interval [bs, be) meets with s < be and e > bs;
\* nothing else is returned.
C6_AvailableIffNoOverlap ==
  Answered =>
    /\ SlotSet \subseteq DayCandidates
    /\ \A c \in DayCandidates :
         c \in SlotSet <=>
           ~\E b \in busyAnswer : c.startISO < b.end /\ c.endISO > b.start

\* A busy interval that ends exactly where a returned slot starts, with
\* another that overlaps a candidate by one minute, which is not returned.
C6_Witness ==
  /\ Answered
  /\ \E b \in busyAnswer, c \in SlotSet : b.end = c.startISO
  /\ \E b \in busyAnswer, c \in DayCandidates \ SlotSet :
       b.end = c.startISO + 1

\* C7: nothing is sent to the notification sender or to the CRM for a request
\* before its calendar insert has succeeded: not before the insert is called,
\* not while it is pending, not after it failed.
C7_BestEffortAfterInsert ==
  \A r \in Reqs :
    (mailCalls[r] # <<>> \/ crmCalls[r] # <<>>) =>
      InsertSucceeded(r) /\ pc[r] \notin {"new", "insert"}

C7_Witness ==
  \E r \in Reqs : mailCalls[r] # <<>> /\ crmCalls[r] # <<>> /\ InsertSucceeded(r)

\* Nothing of the handler of r remains to run: it answered or gave up, or the
\* process ended under it.
RequestOver(r) == pc[r] = "done" \/ (pc[r] \in {"insert", "crm"} /\ ~alive)

\* C8 (as claimed): a request never has two responses, and once nothing of its
\* handler remains to run it has exactly one.
C8_ExactlyOneResponse ==
  \A r \in Reqs :
    /\ Len(responses[r]) <= 1
    /\ RequestOver(r) => Len(responses[r]) = 1

\* C9 (as claimed): once the notification stage of a request is over, both the
\* requester and the operator message were handed to the sender.
C9_BothNotificationsAttempted ==
  \A r \in Reqs :
    mailPc[r] \in {"sent", "failed"} =>
      /\ \E i \in DOMAIN mailCalls[r] : mailCalls[r][i].to = Get(payload[r], "email")
      /\ \E i \in DOMAIN mailCalls[r] : mailCalls[r][i].to = RECIPIENT_EMAIL

\* C10 (as claimed): with nothing busy the day has exactly 16 slots, the first
\* at 01:00 UTC (9:00 in the business zone) and the last at 08:30 UTC (16:30),
\* each meetingDurationMinutes long.
C10_SixteenSlotsOnFreeDay ==
  (Answered /\ busyAnswer = {}) =>
    /\ Len(Slots) = 16
    /\ Slots[1].startISO = DateMinute[query.start] + 60
    /\ Slots[Len(Slots)].startISO = DateMinute[query.start] + 510
    /\ \A i \in DOMAIN Slots :
         Slots[i].endISO = Slots[i].startISO + meetingDurationMinutes

\* C11: when the busy list is one interval exactly equal to a candidate of the
\* day, that candidate is not returned and every other candidate of the day is.
C11_ExactBusyHidesOnlyThatSlot ==
  Answered =>
    \A c \in DayCandidates :
      busyAnswer = {[start |-> c.startISO, end |-> c.endISO]} =>
        SlotSet = DayCandidates \ {c}

\* The busy list is exactly one candidate, not the first of the day, and the
\* day's other candidates are returned.
C11_Witness ==
  /\ Answered
  /\ \E c \in DayCandidates :
       /\ busyAnswer = {[start |-> c.startISO, end |-> c.endISO]}
       /\ c.startISO > DateMinute[query.start] + 300
       /\ c \notin SlotSet
       /\ Cardinality(SlotSet) = Cardinality(DayCandidates) - 1

\* The dates from start to end inclusive.
RangeDays == {d \in QueryDates : DateMinute[query.start] <= DateMinute[d]
                                 /\ DateMinute[d] <= DateMinute[query.end]}

\* C12: the answer for a range start..end with start not after end has one
\* entry per day of the range, each day from start to end inclusive.
C12_OneEntryPerDayOfRange ==
  (Answered /\ DateMinute[query.start] <= DateMinute[query.end]) =>
    LET days == avResponses[1].days
    IN /\ Len(days) = Cardinality(RangeDays)
       /\ {days[i].date : i \in DOMAIN days} = RangeDays

\* C13: when the busy query fails the handler sends exactly one response, the
\* generic 500 failure, whatever the query failed with, and it carries no
\* slot list.
C13_QueryFailureIsGeneric ==
  queryError # Undefined =>
    /\ avPc = "done"
    /\ Len(avResponses) = 1
    /\ DOMAIN avResponses[1] = {"status", "error"}
    /\ avResponses[1].status = 500
    /\ avResponses[1].error = "Failed to fetch availability"

\* The query for a valid range was sent and failed, and the handler answered.
C13_Witness ==
  /\ queryError = "quotaExceeded"
  /\ Len(freebusyCalls) = 1
  /\ Len(avResponses) = 1
  /\ avResponses[1].status = 500

\* The elements of l in order with sep between neighbours, built from the end.
RECURSIVE JoinedInOrder(_, _)
JoinedInOrder(l, sep) ==
  IF l = <<>> THEN ""
  ELSE IF Len(l) = 1 THEN l[1]
  ELSE JoinedInOrder(SubSeq(l, 1, Len(l) - 1), sep) \o sep \o l[Len(l)]

\* The values the body sends under the key.
ValuesAt(body, key) == {body[j][2] : j \in {i \in DOMAIN body : body[i][1] = key}}

\* What is sent for a field of the request: its text, or the text "undefined"
\* for an answer the request left out.
Sent(p, field) == IF field \in DOMAIN p THEN p[field] ELSE "undefined"

\* C14: the body posted to the CRM has exactly the keys 6 to 13, 15 and 16,
\* no 14, and under each key the field of the fixed mapping: focus areas
\* joined by a newline in order, target countries joined by comma and
\* space, and "From: start / To: end" under 16.
C14_FixedIndexMapping ==
  \A r \in Reqs : \A i \in DOMAIN crmCalls[r] :
    LET body == crmCalls[r][i]
        p == payload[r]
    IN /\ {body[j][1] : j \in DOMAIN body} =
            {"submission[6]", "submission[7]", "submission[8]",
             "submission[9]", "submission[10]", "submission[11]",
             "submission[12]", "submission[13]", "submission[15]",
             "submission[16]"}
       /\ ValuesAt(body, "submission[6]") = {Sent(p, "name")}
       /\ ValuesAt(body, "submission[7]") = {Sent(p, "email")}
       /\ ValuesAt(body, "submission[8]") = {Sent(p, "company")}
       /\ ValuesAt(body, "submission[9]") = {Sent(p, "website")}
       /\ ValuesAt(body, "submission[10]") = {Sent(p, "timezone")}
       /\ ValuesAt(body, "submission[11]") =
            {JoinedInOrder(p.focusAreas, "\n")}
       /\ ValuesAt(body, "submission[12]") =
            {JoinedInOrder(p.targetCountries, ", ")}
       /\ ValuesAt(body, "submission[13]") = {Sent(p, "timeline")}
       /\ ValuesAt(body, "submission[15]") = {Sent(p, "primaryChallenge")}
       /\ ValuesAt(body, "submission[16]") =
            {"From: " \o Sent(p, "startISO") \o "\nTo: " \o Sent(p, "endISO")}

\* A body with two focus areas and two target countries, neither in
\* alphabetical order, was posted to the CRM.
C14_Witness ==
  \E r \in Reqs :
    /\ Len(crmCalls[r]) = 1
    /\ payload[r].focusAreas = <<"SEO", "Ads">>
    /\ payload[r].targetCountries = <<"SG", "MY">>
    /\ ValuesAt(crmCalls[r][1], "submission[12]") = {"SG, MY"}

ClientSends(r) == {i \in DOMAIN mailCalls[r] : "meetLink" \in DOMAIN mailCalls[r][i]}
AdminSends(r) == {i \in DOMAIN mailCalls[r] : "meetLink" \notin DOMAIN mailCalls[r][i]}

\* C16: within one book request the requester notification, the operator
\* notification and the CRM submission are each invoked at most once,
\* whether or not the call failed.
C16_NoRetry ==
  \A r \in Reqs :
    /\ Cardinality(ClientSends(r)) <= 1
    /\ Cardinality(AdminSends(r)) <= 1
    /\ Len(crmCalls[r]) <= 1

\* The request is over, its CRM post and one of its email sends failed, and
\* each was called once.
C16_Witness ==
  \E r \in Reqs :
    /\ pc[r] = "done"
    /\ mailPc[r] = "failed"
    /\ "Error submitting to Jotform" \in errors[r]
    /\ "Error sending email via Brevo" \in errors[r]
    /\ Len(crmCalls[r]) = 1
    /\ Cardinality(ClientSends(r)) = 1

\* The grid of the claim for the queried day: the starts windowStart + k * step
\* that lie before the window's end, in ascending order.
GridStarts ==
  LET windowStart == DateMinute[query.start] + workDayStartHourUTC * 60
      windowEnd == DateMinute[query.start] + workDayEndHourUTC * 60
      ks == {k \in 0..((windowEnd - windowStart) \div stepMinutes) :
               windowStart + k * stepMinutes < windowEnd}
  IN [i \in 1..Cardinality(ks) |-> windowStart + (i - 1) * stepMinutes]

\* C17: with nothing busy, the slots of the day are exactly the candidates that
\* start at windowStart + k * step before the window's end, one for each such
\* k in ascending order, each of the meeting's length.
C17_CandidatesAreTheGrid ==
  (Answered /\ busyAnswer = {}) =>
    /\ Len(Slots) = Len(GridStarts)
    /\ \A i \in DOMAIN Slots :
         /\ Slots[i].startISO = GridStarts[i]
         /\ Slots[i].endISO = GridStarts[i] + meetingDurationMinutes

\* C19: once the insert of a request has succeeded (and the process lives),
\* the request is answered in the end, also when its email sends stay pending
\* for ever.
C19_EmailDoesNotBlockResponse ==
  \A r \in Reqs :
    (InsertSucceeded(r) /\ alive) ~> (Len(responses[r]) = 1)

\* The request was answered ok:true while its first email send is pending.
C19_Witness ==
  \E r \in Reqs :
    /\ InsertSucceeded(r)
    /\ mailPc[r] = "client"
    /\ pc[r] = "done"
    /\ responses[r] = <<OkResponse(createdEvent[r].hangoutLink)>>

\* C20: two different book requests never pass the same conference request id
\* to the calendar insert, also when they are handled at the same clock value.
C20_DistinctRequestIds ==
  \A r, q \in Reqs :
    (r # q /\ insertCalls[r] # <<>> /\ insertCalls[q] # <<>>) =>
      insertCalls[r][1].requestId # insertCalls[q][1].requestId

====
